---- MODULE Spec2Model ----
(***************************************************************************)
(* Model of script.py: the email fan-out normaliser                        *)
(* (create_intermediate_csv), the secondary merge (create_final_csv) and   *)
(* the batch driver (process_files).                                       *)
(*                                                                         *)
(* A file on disk is a record [cols, rows]: cols is the set of header      *)
(* names, rows a sequence of functions from header name to the text of the *)
(* cell ("" is an empty field).  A DataFrame is a record [cols, rows]      *)
(* whose rows are records [idx, val]: idx is the pandas index label, val a *)
(* function from column name to a cell value, NA being the missing value.  *)
(***************************************************************************)
EXTENDS Integers, Sequences, FiniteSets, TLC

\* ------------------------------------------------------------------ bounds
MaxMainRows == 3
MaxNormRows == 2
MaxSecRows == 2
BatchRows == 1
MaxFiles == 2

\* ------------------------------------------------------------ cell values
NA == "<NaN>"

NaStrings == {"", "NA", "NaN", "null"}

ReadCell(s) == IF s \in NaStrings THEN NA ELSE s

WriteCell(v) == IF v = NA THEN "" ELSE v

notna(v) == v # NA

\* ----------------------------------------------------------- column names
Canon(h) ==
    CASE h = "Email" -> "email"
      [] h = "Email2" -> "email2"
      [] h = "VIN" -> "vin"
      [] h = " Name " -> "name"
      [] OTHER -> h

column_mapping(c) ==
    CASE c = "postal address" -> "address"
      [] c = "email address" -> "email"
      [] c = "model year" -> "year"
      [] c = "name" -> "first name"
      [] c = "customer name" -> "first name"
      [] OTHER -> c

\* ------------------------------------------------------ files and frames
EmptyFile == [cols |-> {}, rows |-> <<>>]

EmptyFrame == [cols |-> {}, rows |-> <<>>]

RangeIndex(vals) == [k \in 1..Len(vals) |-> [idx |-> k - 1, val |-> vals[k]]]

Values(df) == [k \in 1..Len(df.rows) |-> df.rows[k].val]

ReadFile(f) ==
    [cols |-> f.cols,
     rows |-> RangeIndex([k \in 1..Len(f.rows) |->
                             [c \in f.cols |-> ReadCell(f.rows[k][c])]])]

ToCsv(df) ==
    [cols |-> df.cols,
     rows |-> [k \in 1..Len(df.rows) |->
                  [c \in df.cols |-> WriteCell(df.rows[k].val[c])]]]

\* f maps each column name of df to its new name
Rename(df, f) ==
    LET newcols == {f[c] : c \in df.cols}
        old(n) == CHOOSE c \in df.cols : f[c] = n
    IN  [cols |-> newcols,
         rows |-> [k \in 1..Len(df.rows) |->
                      [idx |-> df.rows[k].idx,
                       val |-> [n \in newcols |-> df.rows[k].val[old(n)]]]]]

Drop(df, col) ==
    [cols |-> df.cols \ {col},
     rows |-> [k \in 1..Len(df.rows) |->
                  [idx |-> df.rows[k].idx,
                   val |-> [c \in df.cols \ {col} |-> df.rows[k].val[c]]]]]

Reindex(df, cols) ==
    [cols |-> cols,
     rows |-> [k \in 1..Len(df.rows) |->
                  [idx |-> df.rows[k].idx,
                   val |-> [c \in cols |->
                              IF c \in df.cols THEN df.rows[k].val[c] ELSE NA]]]]

Concat(a, b) ==
    [cols |-> a.cols \cup b.cols,
     rows |-> RangeIndex(Values(a) \o Values(b))]

\* the rows of df at the positions where the boolean mask is TRUE
RECURSIVE Masked(_, _, _)
Masked(rows, mask, k) ==
    IF k = 0 THEN <<>>
    ELSE IF mask[k] THEN Append(Masked(rows, mask, k - 1), rows[k])
    ELSE Masked(rows, mask, k - 1)

Filter(df, mask) ==
    [cols |-> df.cols, rows |-> Masked(df.rows, mask, Len(df.rows))]

Lower(df) == Rename(df, [c \in df.cols |-> Canon(c)])

Mapped(df) == Rename(df, [c \in df.cols |-> column_mapping(c)])

Column(df, col) == {df.rows[k].val[col] : k \in 1..Len(df.rows)}

\* --------------------------------------------------------- input domains
SeqsUpTo(S, n) == UNION {[1..k -> S] : k \in 0..n}

MainHeaders ==
    { {"Email", "Email2", "VIN"},
      {"email", "vin", " Name "},
      {"Email2", "VIN"},
      {"Email", "Email2"} }

MainCells(h) ==
    CASE h \in {"Email", "email", "Email2"} -> {"", "a@x.com", "b@x.com"}
      [] h = "vin" -> {"", "V1"}
      [] h = "VIN" -> {"V1"}
      [] OTHER -> {"Ann"}

SecondaryHeaders ==
    { {"VIN", "Email"},
      {"vin", "email address"},
      {"vin", "email", "model year"},
      {"vin"},
      {"Email"} }

SecondaryCells(h) ==
    CASE h \in {"Email", "email", "email address"} -> {"", "a@x.com", "c@x.com"}
      [] h \in {"VIN", "vin"} -> {"V1", "V2"}
      [] OTHER -> {"2020"}

\* cells maps each header name to the set of texts its cells may hold
RowsOver(hs, cells) == {r \in [hs -> UNION {cells[h] : h \in hs}] :
                           \A h \in hs : r[h] \in cells[h]}

Files(headers, cells, n) ==
    UNION {{[cols |-> hs, rows |-> rs] : rs \in SeqsUpTo(RowsOver(hs, cells), n)} :
              hs \in headers}

MainFiles(n) ==
    Files(MainHeaders, [h \in UNION MainHeaders |-> MainCells(h)], n)

SecondaryFiles(n) ==
    Files(SecondaryHeaders, [h \in UNION SecondaryHeaders |-> SecondaryCells(h)], n)

NormHeaders == { {"email", "vin", "name"}, {"email"} }

NormCells(h) ==
    CASE h = "email" -> {"a@x.com", "b@x.com"}
      [] h = "vin" -> {"", "V1"}
      [] OTHER -> {"Ann"}

NormFiles(n) ==
    {f \in Files(NormHeaders, [h \in UNION NormHeaders |-> NormCells(h)], n) :
        f.rows # <<>>}

\* ------------------------------------------------------------------ state
VARIABLES pc, caller, i, max_files, error, writes,
          main_df, row, processed_rows, intermediate_df, intermediate_file,
          secondary_file, secondary_df, unmatched_secondary, final_df

locals == <<main_df, row, processed_rows, intermediate_df,
            secondary_file, secondary_df, unmatched_secondary, final_df>>

vars == <<pc, caller, i, max_files, error, writes, intermediate_file, locals>>

NoLocals ==
    /\ main_df = EmptyFrame
    /\ row = 0
    /\ processed_rows = <<>>
    /\ intermediate_df = EmptyFrame
    /\ secondary_file = EmptyFile
    /\ secondary_df = EmptyFrame
    /\ unmatched_secondary = EmptyFrame
    /\ final_df = EmptyFrame

ClearLocals ==
    /\ main_df' = EmptyFrame
    /\ row' = 0
    /\ processed_rows' = <<>>
    /\ intermediate_df' = EmptyFrame
    /\ secondary_file' = EmptyFile
    /\ secondary_df' = EmptyFrame
    /\ unmatched_secondary' = EmptyFrame
    /\ final_df' = EmptyFrame

\* Raise as it would be were the driver to catch the exception and go on with
\* the next pairing.
Raise_Skipped(e) ==
    /\ error' = e
    /\ pc' = "pf_pair"
    /\ i' = i + 1
    /\ ClearLocals
    /\ UNCHANGED <<caller, max_files, writes, intermediate_file>>

\* An exception nobody catches: process_files has no try/except, so it ends
\* the run where it is raised.
Raise(e) ==
    /\ error' = e
    /\ pc' = "crashed"
    /\ UNCHANGED <<caller, i, max_files, writes, intermediate_file, locals>>

\* ------------------------------------------------ create_intermediate_csv
LoadMain(f) == Lower(ReadFile(f))

CI_Load ==
    /\ pc = "ci_load"
    /\ \/ Raise("ValueError: Unsupported file type")
       \/ \E f \in MainFiles(BatchRows) :
            /\ main_df' = LoadMain(f)
            /\ pc' = "ci_check"
            /\ UNCHANGED <<caller, i, max_files, error, writes, intermediate_file,
                           row, processed_rows, intermediate_df, secondary_file,
                           secondary_df, unmatched_secondary, final_df>>

\* CI_Check as it would be were the output file created before the header is
\* validated.
CI_Check_WritesFirst ==
    /\ pc = "ci_check"
    /\ IF "email" \notin main_df.cols
         THEN /\ error' = "ValueError: The main file must contain an 'Email' column."
              /\ pc' = "crashed"
              /\ writes' = writes \cup {<<i, "intermediate">>}
              /\ UNCHANGED <<caller, i, max_files, intermediate_file, locals>>
         ELSE /\ processed_rows' = <<>>
              /\ row' = 1
              /\ pc' = "ci_loop"
              /\ UNCHANGED <<caller, i, max_files, error, writes, intermediate_file,
                             main_df, intermediate_df, secondary_file,
                             secondary_df, unmatched_secondary, final_df>>

CI_Check ==
    /\ pc = "ci_check"
    /\ IF "email" \notin main_df.cols
         THEN Raise("ValueError: The main file must contain an 'Email' column.")
         ELSE /\ processed_rows' = <<>>
              /\ row' = 1
              /\ pc' = "ci_loop"
              /\ UNCHANGED <<caller, i, max_files, error, writes, intermediate_file,
                             main_df, intermediate_df, secondary_file,
                             secondary_df, unmatched_secondary, final_df>>

Swapped(r) == [r EXCEPT !["email"] = r["email2"], !["email2"] = r["email"]]

Promoted(r) == [r EXCEPT !["email"] = r["email2"], !["email2"] = NA]

\* Fanout with the swapped copy appended before the original.
Fanout_SwappedFirst(r, email2_col) ==
    IF email2_col /\ notna(r["email"]) /\ notna(r["email2"])
      THEN <<Swapped(r), r>>
    ELSE IF notna(r["email"])
      THEN <<r>>
    ELSE IF email2_col /\ notna(r["email2"])
      THEN <<Promoted(r)>>
    ELSE <<>>

\* Fanout with case 3 appending the row as it is, email2 not moved to email.
Fanout_NoPromote(r, email2_col) ==
    IF email2_col /\ notna(r["email"]) /\ notna(r["email2"])
      THEN <<r, Swapped(r)>>
    ELSE IF notna(r["email"])
      THEN <<r>>
    ELSE IF email2_col /\ notna(r["email2"])
      THEN <<r>>
    ELSE <<>>

\* Fanout with case 1 appending the original row only.
Fanout_NoCopy(r, email2_col) ==
    IF email2_col /\ notna(r["email"]) /\ notna(r["email2"])
      THEN <<r>>
    ELSE IF notna(r["email"])
      THEN <<r>>
    ELSE IF email2_col /\ notna(r["email2"])
      THEN <<Promoted(r)>>
    ELSE <<>>

\* Fanout with a final else that keeps the rows without any email.
Fanout_KeepsEmpty(r, email2_col) ==
    IF email2_col /\ notna(r["email"]) /\ notna(r["email2"])
      THEN <<r, Swapped(r)>>
    ELSE IF notna(r["email"])
      THEN <<r>>
    ELSE IF email2_col /\ notna(r["email2"])
      THEN <<Promoted(r)>>
    ELSE <<r>>

\* The rows one input row appends to processed_rows (the body of the loop).
Fanout(r, email2_col) ==
    IF email2_col /\ notna(r["email"]) /\ notna(r["email2"])
      THEN <<r, Swapped(r)>>
    ELSE IF notna(r["email"])
      THEN <<r>>
    ELSE IF email2_col /\ notna(r["email2"])
      THEN <<Promoted(r)>>
    ELSE <<>>

CI_Row ==
    /\ pc = "ci_loop"
    /\ row <= Len(main_df.rows)
    /\ processed_rows' =
         processed_rows \o Fanout(main_df.rows[row].val, "email2" \in main_df.cols)
    /\ row' = row + 1
    /\ UNCHANGED <<pc, caller, i, max_files, error, writes, intermediate_file,
                   main_df, intermediate_df, secondary_file,
                   secondary_df, unmatched_secondary, final_df>>

DataFrame(rows, cols) ==
    IF rows = <<>> THEN EmptyFrame ELSE [cols |-> cols, rows |-> RangeIndex(rows)]

Intermediate(rows, cols) ==
    LET df == DataFrame(rows, cols)
    IN  IF "email2" \in cols THEN Drop(df, "email2") ELSE df

CI_Save ==
    /\ pc = "ci_loop"
    /\ row > Len(main_df.rows)
    /\ intermediate_df' = Intermediate(processed_rows, main_df.cols)
    /\ intermediate_file' = ToCsv(intermediate_df')
    /\ writes' = writes \cup {<<i, "intermediate">>}
    /\ pc' = "ci_return"
    /\ UNCHANGED <<caller, i, max_files, error, main_df, row, processed_rows,
                   secondary_file, secondary_df, unmatched_secondary, final_df>>

CI_Return ==
    /\ pc = "ci_return"
    /\ pc' = IF caller = "process_files" THEN "cf_load" ELSE "done"
    /\ ClearLocals
    /\ UNCHANGED <<caller, i, max_files, error, writes, intermediate_file>>

\* ------------------------------------------------------- create_final_csv
LoadSecondary(f) == Mapped(Lower(ReadFile(f)))

CF_Load ==
    /\ pc = "cf_load"
    /\ IF intermediate_file.cols = {}
         THEN Raise("EmptyDataError: No columns to parse from file")
         ELSE \/ Raise("ValueError: Unsupported file type")
              \/ \E f \in SecondaryFiles(BatchRows) :
                   /\ intermediate_df' = Lower(ReadFile(intermediate_file))
                   /\ secondary_file' = f
                   /\ secondary_df' = LoadSecondary(f)
                   /\ pc' = "cf_filter"
                   /\ UNCHANGED <<caller, i, max_files, error, writes,
                                  intermediate_file, main_df, row, processed_rows,
                                  unmatched_secondary, final_df>>

\* HasEmail with the filter of line 113 commented out.
HasEmail_Any(r) == TRUE

HasEmail(r) == notna(r.val["email"])

CF_Filter ==
    /\ pc = "cf_filter"
    /\ IF "email" \notin secondary_df.cols
         THEN Raise("KeyError: 'email'")
         ELSE /\ secondary_df' =
                   Filter(secondary_df, [k \in 1..Len(secondary_df.rows) |->
                                           HasEmail(secondary_df.rows[k])])
              /\ pc' = "cf_unmatched"
              /\ UNCHANGED <<caller, i, max_files, error, writes, intermediate_file,
                             main_df, row, processed_rows, intermediate_df,
                             secondary_file, unmatched_secondary, final_df>>

isin(v, df, col) == v \in Column(df, col)

\* Unmatched as a test of the (vin, email) pair against single rows.
Unmatched_Pair(r, df) ==
    ~\E k \in 1..Len(df.rows) :
        /\ df.rows[k].val["vin"] = r.val["vin"]
        /\ df.rows[k].val["email"] = r.val["email"]

\* Unmatched with the email test alone.
Unmatched_EmailOnly(r, df) == ~isin(r.val["email"], df, "email")

\* The boolean mask of lines 116-119, for one secondary row.
Unmatched(r, df) ==
    ~(isin(r.val["vin"], df, "vin") /\ isin(r.val["email"], df, "email"))

CF_Unmatched ==
    /\ pc = "cf_unmatched"
    /\ IF "vin" \notin secondary_df.cols \/ "vin" \notin intermediate_df.cols
         THEN Raise("KeyError: 'vin'")
       ELSE IF "email" \notin intermediate_df.cols
         THEN Raise("KeyError: 'email'")
       ELSE /\ unmatched_secondary' =
                 Filter(secondary_df,
                        [k \in 1..Len(secondary_df.rows) |->
                            Unmatched(secondary_df.rows[k], intermediate_df)])
            /\ pc' = "cf_save"
            /\ UNCHANGED <<caller, i, max_files, error, writes, intermediate_file,
                           main_df, row, processed_rows, intermediate_df,
                           secondary_file, secondary_df, final_df>>

\* Final with the two frames concatenated the other way round.
Final_SecondaryFirst(inter, unmatched) ==
    Concat(Reindex(unmatched, inter.cols), inter)

Final(inter, unmatched) == Concat(inter, Reindex(unmatched, inter.cols))

CF_Save ==
    /\ pc = "cf_save"
    /\ final_df' = Final(intermediate_df, unmatched_secondary)
    /\ writes' = writes \cup {<<i, "final">>}
    /\ pc' = "cf_return"
    /\ UNCHANGED <<caller, i, max_files, error, intermediate_file,
                   main_df, row, processed_rows, intermediate_df,
                   secondary_file, secondary_df, unmatched_secondary>>

CF_Return ==
    /\ pc = "cf_return"
    /\ IF caller = "process_files"
         THEN pc' = "pf_pair" /\ i' = i + 1
         ELSE pc' = "done" /\ i' = i
    /\ ClearLocals
    /\ UNCHANGED <<caller, max_files, error, writes, intermediate_file>>

\* ---------------------------------------------------------- process_files
PF_Start ==
    /\ pc = "pf_start"
    /\ \E nmain \in 0..MaxFiles, nsec \in 0..MaxFiles, user_decision \in {"y", "n"} :
         IF nmain # nsec /\ user_decision # "y"
           THEN /\ pc' = "aborted"
                /\ UNCHANGED <<caller, i, max_files, error, writes,
                               intermediate_file, locals>>
         ELSE IF nmain = 0 \/ nsec = 0
           THEN Raise("IndexError: list index out of range")
         ELSE /\ max_files' = IF nmain > nsec THEN nmain ELSE nsec
              /\ i' = 1
              /\ pc' = "pf_pair"
              /\ UNCHANGED <<caller, error, writes, intermediate_file, locals>>

PF_Pair ==
    /\ pc = "pf_pair"
    /\ IF i > max_files
         THEN pc' = "done"
         ELSE \E user_confirmation \in {"y", "n"} :
                pc' = IF user_confirmation # "y" THEN "aborted" ELSE "ci_load"
    /\ UNCHANGED <<caller, i, max_files, error, writes, intermediate_file, locals>>

\* --------------------------------------------------------- specifications
InitCommon ==
    /\ i = 0
    /\ max_files = 0
    /\ error = "none"
    /\ writes = {}

Init ==
    /\ pc = "pf_start"
    /\ caller = "process_files"
    /\ InitCommon
    /\ intermediate_file = EmptyFile
    /\ NoLocals

Next ==
    \/ PF_Start \/ PF_Pair
    \/ CI_Load \/ CI_Check \/ CI_Row \/ CI_Save \/ CI_Return
    \/ CF_Load \/ CF_Filter \/ CF_Unmatched \/ CF_Save \/ CF_Return

Spec == Init /\ [][Next]_vars

\* create_intermediate_csv called on its own, from after the load of line 50.
InitFanout ==
    /\ pc = "ci_check"
    /\ caller = "script"
    /\ InitCommon
    /\ intermediate_file = EmptyFile
    /\ \E f \in MainFiles(MaxMainRows) : main_df = LoadMain(f)
    /\ row = 0
    /\ processed_rows = <<>>
    /\ intermediate_df = EmptyFrame
    /\ secondary_file = EmptyFile
    /\ secondary_df = EmptyFrame
    /\ unmatched_secondary = EmptyFrame
    /\ final_df = EmptyFrame

NextFanout == CI_Check \/ CI_Row \/ CI_Save \/ CI_Return

SpecFanout == InitFanout /\ [][NextFanout]_vars

\* create_final_csv called on its own, from after the loads of line 108.
InitMerge ==
    /\ pc = "cf_filter"
    /\ caller = "script"
    /\ InitCommon
    /\ \E f \in NormFiles(MaxNormRows) :
         /\ intermediate_file = f
         /\ intermediate_df = Lower(ReadFile(f))
    /\ \E f \in SecondaryFiles(MaxSecRows) :
         /\ secondary_file = f
         /\ secondary_df = LoadSecondary(f)
    /\ main_df = EmptyFrame
    /\ row = 0
    /\ processed_rows = <<>>
    /\ unmatched_secondary = EmptyFrame
    /\ final_df = EmptyFrame

NextMerge == CF_Filter \/ CF_Unmatched \/ CF_Save \/ CF_Return

SpecMerge == InitMerge /\ [][NextMerge]_vars

\* ===================================================== fan-out properties
\* The records create_intermediate_csv returns, and what the claims say of
\* each input row: how many records it yields and where they are.
Out == Values(intermediate_df)

In(k) == main_df.rows[k].val

Email2Of(r) == IF "email2" \in main_df.cols THEN r["email2"] ELSE NA

BothEmails(r) == notna(r["email"]) /\ notna(Email2Of(r))

SingleEmail(r) == notna(r["email"]) # notna(Email2Of(r))

NoEmails(r) == ~notna(r["email"]) /\ ~notna(Email2Of(r))

Contribution(r) == IF BothEmails(r) THEN 2 ELSE IF SingleEmail(r) THEN 1 ELSE 0

RECURSIVE Offset(_)
Offset(k) == IF k <= 1 THEN 0 ELSE Offset(k - 1) + Contribution(In(k - 1))

InRows == 1..Len(main_df.rows)

TotalContribution == Offset(Len(main_df.rows) + 1)

\* r without its email2 column and with e as primary email
WithEmail(r, e) ==
    [c \in main_df.cols \ {"email2"} |-> IF c = "email" THEN e ELSE r[c]]

Count(P(_)) == Cardinality({k \in InRows : P(In(k))})

\* C3: a row with both emails yields exactly two adjacent output records, the
\* first with the original email, the second with the original email2 as
\* primary email, other columns equal, pairs in input order.
C3_FanoutCompleteness ==
    pc = "ci_return" =>
      /\ Len(Out) = TotalContribution
      /\ \A k \in InRows : BothEmails(In(k)) =>
           /\ Offset(k + 1) = Offset(k) + 2
           /\ Out[Offset(k) + 1] = WithEmail(In(k), In(k)["email"])
           /\ Out[Offset(k) + 2] = WithEmail(In(k), In(k)["email2"])

C3_Witness ==
    /\ pc = "ci_return"
    /\ \E k \in InRows :
         /\ k > 1
         /\ BothEmails(In(k))
         /\ In(k)["email"] # In(k)["email2"]
         /\ Offset(k) > 0

\* C4: a row with exactly one of email, email2 yields exactly one output
\* record, whose primary email is that one value.
C4_SingleEmailLossless ==
    pc = "ci_return" =>
      /\ Len(Out) = TotalContribution
      /\ \A k \in InRows : SingleEmail(In(k)) =>
           /\ Offset(k + 1) = Offset(k) + 1
           /\ Out[Offset(k) + 1] =
                WithEmail(In(k), IF notna(In(k)["email"]) THEN In(k)["email"]
                                 ELSE In(k)["email2"])

C4_Witness ==
    /\ pc = "ci_return"
    /\ \E k \in InRows : SingleEmail(In(k)) /\ ~notna(In(k)["email"])
    /\ \E k \in InRows : SingleEmail(In(k)) /\ notna(In(k)["email"])

\* C9 as stated: one row with both emails is enough for the output to have
\* at least as many records as the input.
C9_RowCountAsStated ==
    (pc = "ci_return" /\ \E k \in InRows : BothEmails(In(k)))
      => Len(Out) >= Len(main_df.rows)

\* C9 amended: the output has at least as many records as the input when the
\* rows with both emails are at least as many as the rows with none.
C9_RowCountAmended ==
    (pc = "ci_return" /\ Count(BothEmails) >= Count(NoEmails))
      => /\ Len(Out) >= Len(main_df.rows)
         /\ Len(Out) = Len(main_df.rows) + Count(BothEmails) - Count(NoEmails)

C9_Witness ==
    /\ pc = "ci_return"
    /\ Count(NoEmails) >= 1
    /\ Count(BothEmails) >= Count(NoEmails)

\* C10: a row with no email yields no output record, and every output record
\* has a primary email.
C10_EmptyRowsDropped ==
    pc = "ci_return" =>
      /\ Len(Out) = TotalContribution
      /\ \A k \in InRows : NoEmails(In(k)) => Offset(k + 1) = Offset(k)
      /\ \A j \in 1..Len(Out) : notna(Out[j]["email"])
      /\ Len(Out) <= 2 * Count(BothEmails) + Count(SingleEmail)

C10_Witness ==
    /\ pc = "ci_return"
    /\ \E k \in InRows : NoEmails(In(k)) /\ "email2" \in main_df.cols
    /\ Len(Out) > 0

\* ======================================================= merge properties
\* The normalized dataset as it is on disk, the secondary dataset as loaded
\* (before the filter of line 113), and the records appended to the output.
Normalized == Values(Lower(ReadFile(intermediate_file)))

Secondary == LoadSecondary(secondary_file)

Merged == pc = "cf_return"

AppendedTo(norm) == SubSeq(Values(final_df), Len(norm) + 1, Len(final_df.rows))

Labels(df) == {df.rows[k].idx : k \in 1..Len(df.rows)}

VinAppears(norm, r) == \E n \in 1..Len(norm) : norm[n]["vin"] = r["vin"]

EmailAppears(norm, r) == \E n \in 1..Len(norm) : norm[n]["email"] = r["email"]

\* a secondary record in the column layout of the normalized dataset
Reshaped(seccols, r) ==
    [c \in intermediate_file.cols |-> IF c \in seccols THEN r[c] ELSE NA]

\* the secondary rows the claims expect in the output, in file order
Expected(norm, r) ==
    notna(r["email"]) /\ ~(VinAppears(norm, r) /\ EmailAppears(norm, r))

RECURSIVE ExpectedUpTo(_, _, _)
ExpectedUpTo(norm, sec, k) ==
    IF k = 0 THEN <<>>
    ELSE IF Expected(norm, sec[k])
      THEN Append(ExpectedUpTo(norm, sec, k - 1), k)
      ELSE ExpectedUpTo(norm, sec, k - 1)

\* C1: a secondary record with an email is left out iff its vin is the vin of
\* some normalized record and its email the email of some normalized record;
\* every other one is appended.
C1_MatchingRule ==
    Merged =>
      LET norm == Normalized
          sec == Values(Secondary)
          seccols == Secondary.cols
          kept == Labels(unmatched_secondary)
          appended == AppendedTo(norm)
      IN  /\ \A k \in 1..Len(sec) : notna(sec[k]["email"]) =>
                ((k - 1) \notin kept
                   <=> (VinAppears(norm, sec[k]) /\ EmailAppears(norm, sec[k])))
          /\ Len(appended) = Cardinality(kept)
          /\ \A k \in 1..Len(sec) : (k - 1) \in kept =>
                \E j \in 1..Len(appended) : appended[j] = Reshaped(seccols, sec[k])

C1_Witness ==
    /\ Merged
    /\ LET norm == Normalized
           sec == Values(Secondary)
       IN  /\ \E k \in 1..Len(sec) :
                /\ notna(sec[k]["email"])
                /\ VinAppears(norm, sec[k]) /\ EmailAppears(norm, sec[k])
                /\ ~\E n \in 1..Len(norm) :
                      /\ norm[n]["vin"] = sec[k]["vin"]
                      /\ norm[n]["email"] = sec[k]["email"]
           /\ \E k \in 1..Len(sec) :
                notna(sec[k]["email"]) /\ ~VinAppears(norm, sec[k])

\* the secondary rows C2 is about: email among the normalized emails, vin
\* among no normalized record's
EmailOnly(norm, r) ==
    notna(r["email"]) /\ EmailAppears(norm, r) /\ ~VinAppears(norm, r)

\* C2 as stated: a secondary record whose email appears in the normalized
\* dataset and whose vin appears in no normalized record is left out.
C2_EmailAloneMatchesAsStated ==
    Merged =>
      LET norm == Normalized
          sec == Values(Secondary)
      IN  \A k \in 1..Len(sec) :
            EmailOnly(norm, sec[k]) => (k - 1) \notin Labels(unmatched_secondary)

\* C2 amended: such a record is not matched, and it is appended to the output.
C2_EmailAloneDoesNotMatch ==
    Merged =>
      LET norm == Normalized
          sec == Values(Secondary)
          seccols == Secondary.cols
          appended == AppendedTo(norm)
      IN  \A k \in 1..Len(sec) :
            EmailOnly(norm, sec[k]) =>
              /\ (k - 1) \in Labels(unmatched_secondary)
              /\ \E j \in 1..Len(appended) : appended[j] = Reshaped(seccols, sec[k])

C2_Witness ==
    /\ Merged
    /\ LET norm == Normalized
           sec == Values(Secondary)
       IN  \E k \in 1..Len(sec) : EmailOnly(norm, sec[k])

\* C5: the output is the normalized records, unchanged and in order, followed
\* by the reshaped unmatched secondary records in their filtered order.
C5_AppendOnly ==
    Merged =>
      LET norm == Normalized
          sec == Values(Secondary)
          seccols == Secondary.cols
          expected == ExpectedUpTo(norm, sec, Len(sec))
          out == Values(final_df)
      IN  /\ Len(out) = Len(norm) + Len(expected)
          /\ SubSeq(out, 1, Len(norm)) = norm
          /\ \A j \in 1..Len(expected) :
                out[Len(norm) + j] = Reshaped(seccols, sec[expected[j]])
          /\ final_df.cols = intermediate_file.cols

C5_Witness ==
    /\ Merged
    /\ LET norm == Normalized
           sec == Values(Secondary)
           expected == ExpectedUpTo(norm, sec, Len(sec))
       IN  /\ Len(expected) >= 2
           /\ sec[expected[1]] # sec[expected[2]]
           /\ Len(norm) >= 2
           /\ norm[1] # norm[2]

\* C6: a secondary record without an email is never appended, whatever its vin.
C6_MissingEmailFiltered ==
    Merged =>
      LET norm == Normalized
          sec == Values(Secondary)
          appended == AppendedTo(norm)
      IN  /\ \A k \in 1..Len(sec) : ~notna(sec[k]["email"]) =>
                (k - 1) \notin Labels(unmatched_secondary)
          /\ Len(appended) = Len(unmatched_secondary.rows)
          /\ \A j \in 1..Len(appended) : notna(appended[j]["email"])

C6_Witness ==
    /\ Merged
    /\ LET norm == Normalized
           sec == Values(Secondary)
       IN  /\ \E k \in 1..Len(sec) :
                ~notna(sec[k]["email"]) /\ ~VinAppears(norm, sec[k])
           /\ \E k \in 1..Len(sec) :
                ~notna(sec[k]["email"]) /\ VinAppears(norm, sec[k])

\* ======================================================= batch properties
SchemaErrors ==
    {"ValueError: The main file must contain an 'Email' column.",
     "KeyError: 'email'", "KeyError: 'vin'"}

SchemaFailure == pc = "crashed" /\ error \in SchemaErrors

\* C7 as stated: when a pairing fails with a schema error, neither of its two
\* files has been written.
C7_NothingWrittenAsStated ==
    SchemaFailure =>
      /\ <<i, "intermediate">> \notin writes
      /\ <<i, "final">> \notin writes

\* C7 amended: the final file of a pairing that fails with a schema error is
\* not written; its intermediate file is not written when the main file lacks
\* the email column, and is already written when the failure is a missing vin
\* or email column found by create_final_csv.
C7_FinalNotWritten ==
    SchemaFailure =>
      /\ <<i, "final">> \notin writes
      /\ <<i, "intermediate">> \in writes
           <=> error # "ValueError: The main file must contain an 'Email' column."

C7_Witness ==
    /\ SchemaFailure
    /\ error = "KeyError: 'email'"
    /\ i = 2

====
